---- MODULE Spec2Model ----
(***************************************************************************)
(* State-machine model of the agentic-todolist frontend:                   *)
(*   - the text-to-calendar preview/commit flow, in both revisions of      *)
(*     TextToCalendarCard that the repository holds (component state, and  *)
(*     react-hook-form with a field array),                                *)
(*   - the text-to-tasks parse/create flow,                                *)
(*   - the session controller useAuth.                                     *)
(* React state, form values, local storage, the query cache and the HTTP   *)
(* requests in flight are the variables; every event handler, mutation     *)
(* callback and effect is one action.                                      *)
(***************************************************************************)
EXTENDS Integers, Sequences, FiniteSets, TLC

VARIABLES
    tab,          \* the TabsContent that is mounted: "convert" or "tasks"
    rev,          \* revision of TextToCalendarCard: "state" (useState) or "form" (useForm)
    pvForm,       \* field values of usePreviewTimelineForm
    calEvents,    \* createdEvents / form value "events": the preview list
    calEditing,   \* isEditing of the PreviewTimelineCard at each index
    calTarget,    \* selectedTargetCalendarId / form value "target_calendar_id"
    previewReqs,  \* POST /timeline/preview requests in flight
    commitReqs,   \* POST /timeline/create-events requests in flight
    cache,        \* react-query cache: status of each query key
    tForm,        \* field values of useCreateTasksFromTimelineForm
    parseReqs,    \* POST /tasks/{listId}/parse requests in flight
    createReqs,   \* POST /tasks/{listId}/tasks requests in flight
    akForm,       \* field values of the api-key form (ApiKeyManagementCard)
    saveReqs,     \* POST /api-keys requests in flight
    removeReqs,   \* DELETE /api-keys/{provider} requests in flight
    apiKeysQuery, \* react-query cache entry ["api-keys"]: status and data
    modelsLoaded, \* providers whose ["models", provider] query holds data
    path,         \* window.location.pathname
    urlToken,     \* "token" of the query string of the page's URL
    storage,      \* localStorage item "token"
    auth,         \* the useState of each mounted useAuth instance
    verifyReqs,   \* GET /auth/verify requests in flight
    logoutReqs,   \* POST /auth/logout requests in flight
    nav,          \* "redirecting" once window.location.href has been assigned
    toast         \* the notification shown last

calVars == <<rev, pvForm, calEvents, calEditing, calTarget, previewReqs, commitReqs>>
taskVars == <<tForm, parseReqs, createReqs>>
authVars == <<path, urlToken, storage, auth, verifyReqs, logoutReqs, nav>>
keyVars == <<akForm, saveReqs, removeReqs, apiKeysQuery, modelsLoaded>>
vars == <<tab, calVars, cache, taskVars, keyVars, authVars, toast>>

----------------------------------------------------------------------------
(* Bounds of the model *)

\* longest event or task list a backend response carries
MaxItems == 2
\* most requests of one kind in flight at once
MaxInFlight == 2
\* most remove requests in flight at once
MaxRemoves == 1
\* most attendee rows of one previewed event
MaxAttendees == 1

----------------------------------------------------------------------------
(* Values *)

\* JavaScript's undefined: a key that is absent from an object
Undefined == "undefined"
\* JavaScript's null
None == "none"

Texts == {"", " ", "x"}
Titles == {"", "a"}
Providers == {"gemini", "openai"}
WritableCalendars == {"work"}

RECURSIVE SeqsUpTo(_, _)
SeqsUpTo(S, n) ==
    IF n = 0 THEN {<<>>}
    ELSE LET shorter == SeqsUpTo(S, n - 1)
         IN  shorter \cup {Append(s, x) : s \in {t \in shorter : Len(t) = n - 1}, x \in S}

\* start_date / end_date, "yyyy-MM-dd": the days of one month, whose order
\* is the order of the strings
Dates == {1, 2}

\* attendees of a CalendarEvent: the empty string is the blank row the add
\* button appends
AttendeeLists == SeqsUpTo({""}, MaxAttendees)

\* a CalendarEvent, reduced to the fields the preview cards edit
Event ==
    [title : Titles, start_date : Dates, end_date : Dates,
     attendees : AttendeeLists]

\* the events a backend answers with in the flows: one day, nobody invited
FlowEvents ==
    {e \in Event : e.start_date = 1 /\ e.end_date = 1 /\ e.attendees = <<>>}

\* parsed_events of a PreviewTimelineResponse
ParsedEvents == SeqsUpTo(FlowEvents, MaxItems)

----------------------------------------------------------------------------
(* Library behaviour the handlers rest on: zod, react-hook-form, useMutation *)

\* obj.key in JavaScript: undefined when the object has no such key
Field(obj, key) == IF key \in DOMAIN obj THEN obj[key] ELSE Undefined

\* z.string().min(1)
MinLen1(s) == s # Undefined /\ s # ""

\* z.email()
IsEmail(s) == s # Undefined /\ s # ""

\* useMutation().mutate(r): a new request goes out and the observer follows it;
\* the callbacks given to an earlier mutate() call are dropped
Mutate(reqs, r) ==
    Append([i \in 1..Len(reqs) |-> [reqs[i] EXCEPT !.cb = FALSE]], r)

\* useMutation().isPending: the mutation the observer follows is not settled
IsPending(reqs) == \E i \in 1..Len(reqs) : reqs[i].cb

\* the component that called useMutation unmounts: its requests stay in
\* flight, their mutate() callbacks will not run; live tells the requests of
\* a mounted component from those an unmounted one left behind. What such a
\* request carried went out when it was issued and no code reads it again.
Unsubscribe(reqs) ==
    [i \in 1..Len(reqs) |->
        [data |-> None, bearer |-> None, cb |-> FALSE, live |-> FALSE]]

\* a response that leaves its request among those in flight
SettleKeepsRequest(reqs, i) == reqs

\* a request is answered and leaves the network
Settle(reqs, i) == SubSeq(reqs, 1, i - 1) \o SubSeq(reqs, i + 1, Len(reqs))

\* the Authorization header apiFetcher builds from local storage
ApiFetcherBearer(stored) == IF stored # None THEN stored ELSE None

\* status of the queries the mounted components read
QueryKeys == {"timelineProviders", "writable-calendars"}

----------------------------------------------------------------------------
(* Text-to-calendar: the preview form *)

pvFormDefaults ==
    [timeline_text |-> "", llm_provider |-> Undefined,
     llm_model |-> "gemini-2.5-flash", target_calendar_id |-> "primary"]

PreviewTimelineSchemaOk(v) ==
    /\ MinLen1(v.timeline_text)
    /\ MinLen1(v.llm_provider)
    /\ MinLen1(v.llm_model)

\* the object zodResolver hands to the submit handler: the keys of the schema
PreviewTimelineSchemaParse(v) ==
    [timeline_text |-> v.timeline_text, llm_provider |-> v.llm_provider,
     llm_model |-> v.llm_model]

\* a "Generate Calendar Events" button without its disabled attribute
PreviewButtonNeverDisabled == FALSE

\* disabled={isPreviewTimelinePending} of "Generate Calendar Events"
PreviewButtonDisabled == IsPending(previewReqs)

\* what previewTimeline(data, {...}) puts on the network
PreviewIssue(reqs, data) ==
    Mutate(reqs, [data |-> data, bearer |-> ApiFetcherBearer(storage),
                  cb |-> TRUE, live |-> TRUE])

CalSetTimelineText(t) ==
    /\ tab = "convert"
    /\ t # pvForm.timeline_text
    /\ pvForm' = [pvForm EXCEPT !.timeline_text = t]
    /\ UNCHANGED <<tab, keyVars, rev, calEvents, calEditing, calTarget, previewReqs,
                   commitReqs, cache, taskVars, authVars, toast>>

CalSetProvider(p) ==
    /\ tab = "convert"
    /\ cache["timelineProviders"] = "fresh"
    /\ p # pvForm.llm_provider
    /\ pvForm' = [pvForm EXCEPT !.llm_provider = p]
    /\ UNCHANGED <<tab, keyVars, rev, calEvents, calEditing, calTarget, previewReqs,
                   commitReqs, cache, taskVars, authVars, toast>>

CalSetTargetCalendar(c) ==
    /\ tab = "convert"
    /\ c = "primary" \/ cache["writable-calendars"] = "fresh"
    /\ c # pvForm.target_calendar_id
    /\ pvForm' = [pvForm EXCEPT !.target_calendar_id = c]
    /\ UNCHANGED <<tab, keyVars, rev, calEvents, calEditing, calTarget, previewReqs,
                   commitReqs, cache, taskVars, authVars, toast>>

\* form.handleSubmit of usePreviewTimelineForm
CalPreviewSubmit ==
    /\ tab = "convert"
    /\ ~PreviewButtonDisabled
    /\ Len(previewReqs) < MaxInFlight
    /\ IF PreviewTimelineSchemaOk(pvForm)
       THEN previewReqs' = PreviewIssue(previewReqs, PreviewTimelineSchemaParse(pvForm))
       ELSE UNCHANGED previewReqs
    /\ UNCHANGED <<tab, keyVars, rev, pvForm, calEvents, calEditing, calTarget,
                   commitReqs, cache, taskVars, authVars, toast>>

NotEditing(evs) == [i \in 1..Len(evs) |-> FALSE]

\* an onSuccess prop that fills an empty list and keeps a populated one
CardOnSuccessKeepsEarlier(events, targetCalendarId) ==
    /\ calEvents' = IF calEvents = <<>> THEN events ELSE calEvents
    /\ calTarget' = targetCalendarId
    /\ calEditing' = NotEditing(calEvents')
    /\ commitReqs' = IF rev = "state" /\ calEvents' = <<>>
                     THEN Unsubscribe(commitReqs) ELSE commitReqs

\* onSuccess prop of PreviewTimelineForm, as TextToCalendarCard passes it
CardOnSuccess(events, targetCalendarId) ==
    /\ calEvents' = events
    /\ calTarget' = targetCalendarId
    /\ calEditing' = NotEditing(events)
    /\ commitReqs' = IF rev = "state" /\ events = <<>>
                     THEN Unsubscribe(commitReqs) ELSE commitReqs

\* onSuccess of previewTimeline(data, {...})
CalPreviewSuccess(i, events) ==
    /\ i \in 1..Len(previewReqs)
    /\ previewReqs' = Settle(previewReqs, i)
    /\ IF previewReqs[i].cb
       THEN /\ toast' = "parsed-events"
            /\ CardOnSuccess(events, Field(previewReqs[i].data, "target_calendar_id"))
       ELSE UNCHANGED <<toast, calEvents, calTarget, calEditing, commitReqs>>
    /\ UNCHANGED <<tab, keyVars, rev, pvForm, cache, taskVars, authVars>>

\* onError of previewTimeline(data, {...})
CalPreviewError(i) ==
    /\ i \in 1..Len(previewReqs)
    /\ previewReqs' = Settle(previewReqs, i)
    /\ toast' = IF previewReqs[i].cb THEN "preview-failed" ELSE toast
    /\ UNCHANGED <<tab, keyVars, rev, pvForm, calEvents, calEditing, calTarget,
                   commitReqs, cache, taskVars, authVars>>

----------------------------------------------------------------------------
(* Text-to-calendar: the preview card and the commit *)

\* CreateEventsFromTimelineSchema, on the fields of Event
CreateEventsFromTimelineSchemaOk(v) ==
    \A i \in 1..Len(v.events) :
        /\ MinLen1(v.events[i].title)
        /\ v.events[i].start_date \in Dates
        /\ v.events[i].end_date \in Dates
        /\ \A k \in 1..Len(v.events[i].attendees) :
              IsEmail(v.events[i].attendees[k])

\* the object zodResolver hands to the submit handler: the keys of the schema
CreateEventsFromTimelineSchemaParse(v) == [events |-> v.events]

\* a preview card rendered without its length condition
PreviewCardAlwaysRendered == TRUE

\* {createdEvents.length > 0 && ...} / {form.eventsFieldArray.fields.length > 0 && ...}
PreviewCardRendered == Len(calEvents) > 0

\* disabled={isCreateEventsFromTimelinePending} of "Add to Calendar"
CommitButtonDisabled == IsPending(commitReqs)

\* what createEventsFromTimeline(data, {...}) puts on the network
CommitIssue(reqs, data) ==
    Mutate(reqs, [data |-> data, bearer |-> ApiFetcherBearer(storage),
                  cb |-> TRUE, live |-> TRUE])

\* onCancel of the "state" revision: both setters, and the card unmounts
CardOnCancel(reqs) ==
    /\ calEvents' = <<>>
    /\ calTarget' = "primary"
    /\ calEditing' = <<>>
    /\ commitReqs' = Unsubscribe(reqs)

\* a reset that empties the field array and leaves the other values
FormResetEventsOnly(reqs) ==
    /\ calEvents' = <<>>
    /\ calTarget' = calTarget
    /\ calEditing' = <<>>
    /\ commitReqs' = reqs

\* form.reset() of useCreateEventsFromTimelineForm: back to defaultValues
FormReset(reqs) ==
    /\ calEvents' = <<>>
    /\ calTarget' = "primary"
    /\ calEditing' = <<>>
    /\ commitReqs' = reqs

\* PreviewTimelineCard.onSubmitHandler ("state"), form.onSubmitHandler ("form")
CalCommitSubmit ==
    /\ tab = "convert"
    /\ PreviewCardRendered
    /\ ~CommitButtonDisabled
    /\ Len(commitReqs) < MaxInFlight
    /\ LET values == [events |-> calEvents, target_calendar_id |-> calTarget]
       IN  IF rev = "state"
           THEN commitReqs' = CommitIssue(commitReqs, values)
           ELSE IF CreateEventsFromTimelineSchemaOk(values)
           THEN commitReqs' = CommitIssue(commitReqs, CreateEventsFromTimelineSchemaParse(values))
           ELSE UNCHANGED commitReqs
    /\ UNCHANGED <<tab, keyVars, rev, pvForm, calEvents, calEditing, calTarget,
                   previewReqs, cache, taskVars, authVars, toast>>

\* onSuccess of createEventsFromTimeline(data, {...})
CommitOnSuccess(reqs) ==
    /\ toast' = "created-events"
    /\ IF rev = "state" THEN CardOnCancel(reqs) ELSE FormReset(reqs)
    /\ cache' = cache

\* an onError that also closes the preview, as onSuccess does
CommitOnErrorCloses(reqs) ==
    /\ toast' = "create-events-failed"
    /\ calEvents' = <<>>
    /\ calTarget' = "primary"
    /\ calEditing' = <<>>
    /\ commitReqs' = IF rev = "state" THEN Unsubscribe(reqs) ELSE reqs
    /\ cache' = cache

\* onError of createEventsFromTimeline(data, {...})
CommitOnError(reqs) ==
    /\ toast' = "create-events-failed"
    /\ commitReqs' = reqs
    /\ UNCHANGED <<calEvents, calTarget, calEditing, cache>>

CalCommitSuccess(i) ==
    /\ i \in 1..Len(commitReqs)
    /\ IF commitReqs[i].cb
       THEN CommitOnSuccess(Settle(commitReqs, i))
       ELSE /\ commitReqs' = Settle(commitReqs, i)
            /\ UNCHANGED <<toast, calEvents, calTarget, calEditing, cache>>
    /\ UNCHANGED <<tab, keyVars, rev, pvForm, previewReqs, taskVars, authVars>>

CalCommitError(i) ==
    /\ i \in 1..Len(commitReqs)
    /\ IF commitReqs[i].cb
       THEN CommitOnError(Settle(commitReqs, i))
       ELSE /\ commitReqs' = Settle(commitReqs, i)
            /\ UNCHANGED <<toast, calEvents, calTarget, calEditing, cache>>
    /\ UNCHANGED <<tab, keyVars, rev, pvForm, previewReqs, taskVars, authVars>>

\* the Cancel button of the preview card
CalCancel ==
    /\ tab = "convert"
    /\ PreviewCardRendered
    /\ IF rev = "state" THEN CardOnCancel(commitReqs) ELSE FormReset(commitReqs)
    /\ UNCHANGED <<tab, keyVars, rev, pvForm, previewReqs, cache, taskVars, authVars,
                   toast>>

\* the pencil / check button of PreviewTimelineCard({ idx })
CalToggleEdit(idx) ==
    /\ tab = "convert"
    /\ rev = "form"
    /\ idx \in 1..Len(calEvents)
    /\ calEditing' = [calEditing EXCEPT ![idx] = ~calEditing[idx]]
    /\ UNCHANGED <<tab, keyVars, rev, pvForm, calEvents, calTarget, previewReqs,
                   commitReqs, cache, taskVars, authVars, toast>>

\* the Input bound to events.${idx}.title
CalEditTitle(idx, t) ==
    /\ tab = "convert"
    /\ rev = "form"
    /\ idx \in 1..Len(calEvents)
    /\ calEditing[idx]
    /\ t # calEvents[idx].title
    /\ calEvents' = [calEvents EXCEPT ![idx].title = t]
    /\ UNCHANGED <<tab, keyVars, rev, pvForm, calEditing, calTarget, previewReqs,
                   commitReqs, cache, taskVars, authVars, toast>>

\* a setValue that writes the value into every event of the list
SetEventFieldEverywhere(evs, idx, field, value) ==
    [i \in 1..Len(evs) |-> [evs[i] EXCEPT ![field] = value]]

\* formCtx.setValue(`events.${idx}.${field}`, value)
SetEventField(evs, idx, field, value) ==
    [evs EXCEPT ![idx] = [@ EXCEPT ![field] = value]]

\* attendees.splice(attendeeIdx, 1)
Splice(atts, k) == SubSeq(atts, 1, k - 1) \o SubSeq(atts, k + 1, Len(atts))

\* onSelect of the range Calendar in the popover of an edited card: the
\* picker hands over a range whose from is not after its to
CalEditDateRange(idx, from, to) ==
    /\ tab = "convert"
    /\ rev = "form"
    /\ idx \in 1..Len(calEvents)
    /\ calEditing[idx]
    /\ from <= to
    /\ <<from, to>> # <<calEvents[idx].start_date, calEvents[idx].end_date>>
    /\ calEvents' = SetEventField(SetEventField(calEvents, idx, "start_date", from),
                                  idx, "end_date", to)
    /\ UNCHANGED <<tab, keyVars, rev, pvForm, calEditing, calTarget, previewReqs,
                   commitReqs, cache, taskVars, authVars, toast>>

\* the add button of the attendees of an edited card
CalAddAttendee(idx) ==
    /\ tab = "convert"
    /\ rev = "form"
    /\ idx \in 1..Len(calEvents)
    /\ calEditing[idx]
    /\ Len(calEvents[idx].attendees) < MaxAttendees
    /\ calEvents' = SetEventField(calEvents, idx, "attendees",
                                  Append(calEvents[idx].attendees, ""))
    /\ UNCHANGED <<tab, keyVars, rev, pvForm, calEditing, calTarget, previewReqs,
                   commitReqs, cache, taskVars, authVars, toast>>

\* the remove button of attendee row k of an edited card
CalRemoveAttendee(idx, k) ==
    /\ tab = "convert"
    /\ rev = "form"
    /\ idx \in 1..Len(calEvents)
    /\ calEditing[idx]
    /\ k \in 1..Len(calEvents[idx].attendees)
    /\ calEvents' = SetEventField(calEvents, idx, "attendees",
                                  Splice(calEvents[idx].attendees, k))
    /\ UNCHANGED <<tab, keyVars, rev, pvForm, calEditing, calTarget, previewReqs,
                   commitReqs, cache, taskVars, authVars, toast>>

\* a useQuery of the mounted form gets its data
QueryResolved(k) ==
    /\ cache[k] = "fetching"
    /\ cache' = [cache EXCEPT ![k] = "fresh"]
    /\ UNCHANGED <<tab, keyVars, calVars, taskVars, authVars, toast>>

----------------------------------------------------------------------------
(* Text-to-tasks *)

TaskTitles == {"a", "b"}
Task == [title : TaskTitles]

\* tasks of a parse response
ParsedTasks == SeqsUpTo(Task, MaxItems)

tFormDefaults ==
    [timeline |-> "", list_id |-> "@default", provider |-> "", model |-> "",
     tasks |-> <<>>, isLoading |-> FALSE, isCreating |-> FALSE]

\* String.prototype.trim on the texts of the model
Trim(s) == IF s = " " THEN "" ELSE s

\* x || undefined
OrUndefined(x) == IF x = "" THEN Undefined ELSE x

\* the Authorization header of the requests taskActions sends: it calls fetch
\* itself, with credentials: "include" and without that header
TaskFetchBearer(stored) == None

\* disabled={form.watch("isLoading") || !form.watch("timeline")?.trim()}
ParseButtonDisabled == tForm.isLoading \/ Trim(tForm.timeline) = ""

\* {form.getValues("tasks")?.length > 0 && <PreviewTasksCard />}
PreviewTasksCardRendered == Len(tForm.tasks) > 0

\* disabled={isCreating || tasks.length === 0}
CreateButtonDisabled == tForm.isCreating \/ Len(tForm.tasks) = 0

TaskSetTimeline(t) ==
    /\ tab = "tasks"
    /\ t # tForm.timeline
    /\ tForm' = [tForm EXCEPT !.timeline = t]
    /\ UNCHANGED <<tab, keyVars, calVars, cache, parseReqs, createReqs, authVars, toast>>

\* a start of previewTasks that leaves the earlier tasks on display
ParseStartedKeepsTasks(f) == [f EXCEPT !.isLoading = TRUE]

\* form.setValue("isLoading", true); form.setValue("tasks", [])
ParseStarted(f) == [f EXCEPT !.isLoading = TRUE, !.tasks = <<>>]

\* previewTasks, up to its await
TaskPreviewClick ==
    /\ tab = "tasks"
    /\ ~ParseButtonDisabled
    /\ Len(parseReqs) < MaxInFlight
    /\ IF Trim(tForm.timeline) = ""
       THEN /\ toast' = "enter-timeline"
            /\ UNCHANGED <<tForm, parseReqs>>
       ELSE /\ tForm' = ParseStarted(tForm)
            /\ parseReqs' = Append(parseReqs,
                   [timeline_text |-> tForm.timeline, list_id |-> tForm.list_id,
                    provider |-> OrUndefined(tForm.provider),
                    model |-> OrUndefined(tForm.model),
                    bearer |-> TaskFetchBearer(storage)])
            /\ toast' = toast
    /\ UNCHANGED <<tab, keyVars, calVars, cache, createReqs, authVars>>

\* previewTasks after its await, the response in hand
TaskParseSuccess(i, tasks) ==
    /\ i \in 1..Len(parseReqs)
    /\ parseReqs' = Settle(parseReqs, i)
    /\ IF Len(tasks) > 0
       THEN /\ tForm' = [tForm EXCEPT !.tasks = tasks, !.isLoading = FALSE]
            /\ toast' = "parsed-tasks"
       ELSE /\ tForm' = [tForm EXCEPT !.tasks = <<>>, !.isLoading = FALSE]
            /\ toast' = "no-tasks-found"
    /\ UNCHANGED <<tab, keyVars, calVars, cache, createReqs, authVars>>

\* previewTasks after its await, the catch branch
TaskParseError(i) ==
    /\ i \in 1..Len(parseReqs)
    /\ parseReqs' = Settle(parseReqs, i)
    /\ tForm' = [tForm EXCEPT !.tasks = <<>>, !.isLoading = FALSE]
    /\ toast' = "parse-failed"
    /\ UNCHANGED <<tab, keyVars, calVars, cache, createReqs, authVars>>

\* createTasks: no await in it, so the whole function is one step; it sends nothing
TaskCreateClick ==
    /\ tab = "tasks"
    /\ PreviewTasksCardRendered
    /\ ~CreateButtonDisabled
    /\ IF Len(tForm.tasks) = 0
       THEN /\ toast' = "no-tasks-to-create"
            /\ tForm' = tForm
       ELSE /\ toast' = "created-tasks"
            /\ tForm' = [tFormDefaults EXCEPT !.isCreating = FALSE]
    /\ UNCHANGED <<tab, keyVars, calVars, cache, parseReqs, createReqs, authVars>>

----------------------------------------------------------------------------
(* The tabs of AppPages: only the active TabsContent is mounted *)

Tabs == {"convert", "tasks", "apikeys"}

\* the ["api-keys"] query before its first answer: data is undefined, kept
\* here as a map without entries under the status "fetching"
ApiKeysPending == [status |-> "fetching", data |-> <<>>]

\* defaultValues of the useForm of ApiKeyManagementCard; a string of this form
\* is kept as its length, all the client looks at
akFormDefaults == [provider |-> 0, api_key |-> 0]

\* a TabsTrigger is clicked: the content of the old tab unmounts with its form
\* state, the content of the new tab mounts. Requests of the flows are
\* dropped, no code being left to handle their answers; save and remove
\* requests keep the onSuccess of their useMutation
SwitchTabTo(t) ==
    /\ t # tab
    /\ tab' = t
    /\ pvForm' = pvFormDefaults
    /\ calEvents' = <<>>
    /\ calEditing' = <<>>
    /\ calTarget' = "primary"
    /\ previewReqs' = <<>>
    /\ commitReqs' = <<>>
    /\ tForm' = tFormDefaults
    /\ parseReqs' = <<>>
    /\ createReqs' = <<>>
    /\ akForm' = akFormDefaults
    /\ saveReqs' = Unsubscribe(saveReqs)
    /\ removeReqs' = removeReqs
    /\ UNCHANGED <<rev, cache, apiKeysQuery, modelsLoaded, authVars, toast>>

\* between the two flows
SwitchTab == SwitchTabTo(IF tab = "convert" THEN "tasks" ELSE "convert")

----------------------------------------------------------------------------
(* The session controller useAuth *)

Tokens == {"t1", "t2"}
Users == {"u1", "u2"}

\* AppPages, Header, LandingPage and LoginCard each call useAuth: each has
\* its own state
Instances == {"page", "header", "landing", "login"}

Paths == {"/", "/login"}

\* useState's initial value of useAuth, in a mounted instance
AuthFresh ==
    [mounted |-> TRUE, effectRan |-> FALSE, isAuthenticated |-> FALSE,
     user |-> None, isLoading |-> TRUE, token |-> None]

AuthUnmounted == [AuthFresh EXCEPT !.mounted = FALSE]

\* isPending of the instance's useVerifyTokenMutation
IsLoadingVerifyToken(reqs, inst) ==
    \E i \in 1..Len(reqs) : reqs[i].inst = inst /\ reqs[i].cb

\* isLoading as useAuth returns it; isLoadingLoginWithGoogle is left out, the
\* document being replaced as soon as loginWithGoogle runs
AuthIsLoading(a, reqs, inst) ==
    a[inst].isLoading \/ IsLoadingVerifyToken(reqs, inst)

\* the child of AppPages that is rendered: none while isLoading, LoginPage
\* on /login, LandingPage when !isAuthenticated, else Header (and the tabs)
RenderedChild(a, reqs) ==
    IF AuthIsLoading(a, reqs, "page") THEN None
    ELSE IF path = "/login" THEN "login"
    ELSE IF ~a["page"].isAuthenticated THEN "landing"
    ELSE "header"

\* React mounts the rendered child and unmounts the other
RenderChildren(a, reqs) ==
    [inst \in Instances |->
        IF inst = "page" THEN a[inst]
        ELSE IF inst # RenderedChild(a, reqs) THEN AuthUnmounted
        ELSE IF a[inst].mounted THEN a[inst]
        ELSE AuthFresh]

\* the setState of onSuccessVerifyToken
VerifiedState(st, token, data) ==
    [st EXCEPT !.isAuthenticated = TRUE, !.user = data.user,
               !.isLoading = FALSE, !.token = token]

\* a sign-out that leaves isLoading as it was
SignedOutStillLoading(st) ==
    [st EXCEPT !.isAuthenticated = FALSE, !.user = None, !.token = None]

\* a sign-out that leaves isAuthenticated as it was
SignedOutStaysAuthenticated(st) ==
    [st EXCEPT !.user = None, !.isLoading = FALSE, !.token = None]

\* the setState of onErrorVerifyToken and of logout
SignedOutState(st) ==
    [st EXCEPT !.isAuthenticated = FALSE, !.user = None,
               !.isLoading = FALSE, !.token = None]

\* the mount effect when neither the URL nor local storage holds a token
NoTokenState(st) == [st EXCEPT !.effectRan = TRUE]

\* useEffect(() => {...}, []) of useAuth
AuthMountEffect(inst) ==
    /\ auth[inst].mounted
    /\ ~auth[inst].effectRan
    /\ Len(verifyReqs) < MaxInFlight
    /\ IF urlToken # None
       THEN /\ auth' = [auth EXCEPT ![inst].effectRan = TRUE, ![inst].isLoading = TRUE]
            /\ verifyReqs' = Append(verifyReqs,
                   [inst |-> inst, token |-> urlToken, viaUrl |-> TRUE, cb |-> TRUE])
       ELSE IF storage # None
       THEN /\ auth' = [auth EXCEPT ![inst].effectRan = TRUE, ![inst].isLoading = TRUE]
            /\ verifyReqs' = Append(verifyReqs,
                   [inst |-> inst, token |-> storage, viaUrl |-> FALSE, cb |-> TRUE])
       ELSE /\ auth' = [auth EXCEPT ![inst] = NoTokenState(auth[inst])]
            /\ verifyReqs' = verifyReqs
    /\ UNCHANGED <<tab, keyVars, calVars, cache, taskVars, path, urlToken, storage,
                   logoutReqs, nav, toast>>

\* onSuccess of verifyToken(...): onSuccessVerifyToken, and the redirect
\* when the token came with the URL
AuthVerifySuccess(i, data) ==
    /\ i \in 1..Len(verifyReqs)
    /\ verifyReqs' = Settle(verifyReqs, i)
    /\ LET r == verifyReqs[i]
       IN  IF r.cb
           THEN /\ storage' = r.token
                /\ auth' = RenderChildren(
                       [auth EXCEPT ![r.inst] = VerifiedState(auth[r.inst], r.token, data)],
                       verifyReqs')
                /\ nav' = IF r.viaUrl THEN "redirecting" ELSE nav
           ELSE UNCHANGED <<storage, auth, nav>>
    /\ UNCHANGED <<tab, keyVars, calVars, cache, taskVars, path, urlToken, logoutReqs, toast>>

\* onError of verifyToken(...): onErrorVerifyToken, and the redirect when
\* the token came with the URL
AuthVerifyError(i) ==
    /\ i \in 1..Len(verifyReqs)
    /\ verifyReqs' = Settle(verifyReqs, i)
    /\ LET r == verifyReqs[i]
       IN  IF r.cb
           THEN /\ toast' = "session-expired"
                /\ storage' = None
                /\ auth' = RenderChildren(
                       [auth EXCEPT ![r.inst] = SignedOutState(auth[r.inst])],
                       verifyReqs')
                /\ nav' = IF r.viaUrl THEN "redirecting" ELSE nav
           ELSE UNCHANGED <<toast, storage, auth, nav>>
    /\ UNCHANGED <<tab, keyVars, calVars, cache, taskVars, path, urlToken, logoutReqs>>

\* logout, from the button of the Header; the mutation function of
\* removeSession runs after the handler has returned
AuthLogout(inst) ==
    /\ inst = "header"
    /\ auth[inst].mounted
    /\ auth[inst].isAuthenticated
    /\ Len(logoutReqs) < MaxInFlight
    /\ storage' = None
    /\ logoutReqs' = Append(logoutReqs, [bearer |-> ApiFetcherBearer(storage')])
    /\ auth' = [auth EXCEPT ![inst] = SignedOutState(auth[inst])]
    /\ nav' = "redirecting"
    /\ UNCHANGED <<tab, keyVars, calVars, cache, taskVars, path, urlToken, verifyReqs, toast>>

\* the backend answers POST /auth/logout; nothing waits for it
AuthLogoutResponse(i) ==
    /\ i \in 1..Len(logoutReqs)
    /\ logoutReqs' = Settle(logoutReqs, i)
    /\ UNCHANGED <<tab, keyVars, calVars, cache, taskVars, path, urlToken, storage, auth,
                   verifyReqs, nav, toast>>

\* the document unloads and a URL loads: every component is new, local storage stays
PageLoad(pathname, token) ==
    /\ path' = pathname
    /\ urlToken' = token
    /\ auth' = [inst \in Instances |->
                   IF inst = "page" THEN AuthFresh ELSE AuthUnmounted]
    /\ verifyReqs' = <<>>
    /\ nav' = "loaded"
    /\ toast' = None
    /\ UNCHANGED <<tab, keyVars, calVars, cache, taskVars, storage, logoutReqs>>

\* window.location.href = "/" takes effect
AuthRedirect ==
    /\ nav = "redirecting"
    /\ PageLoad("/", None)

\* loginWithGoogle from LandingPage or LoginCard: the OAuth round trip ends
\* on a page load whose URL carries ?token=
AuthGoogleLogin(token) ==
    /\ nav = "loaded"
    /\ auth["landing"].mounted \/ auth["login"].mounted
    /\ PageLoad("/", token)

\* the user reloads the page: the same URL loads again
AuthUserReload ==
    /\ nav = "loaded"
    /\ PageLoad(path, urlToken)

AuthInit ==
    /\ tab = "convert"
    /\ rev = "form"
    /\ pvForm = pvFormDefaults
    /\ calEvents = <<>>
    /\ calEditing = <<>>
    /\ calTarget = "primary"
    /\ previewReqs = <<>>
    /\ commitReqs = <<>>
    /\ cache = [k \in QueryKeys |-> "fetching"]
    /\ tForm = tFormDefaults
    /\ parseReqs = <<>>
    /\ createReqs = <<>>
    /\ akForm = akFormDefaults
    /\ saveReqs = <<>>
    /\ removeReqs = <<>>
    /\ apiKeysQuery = ApiKeysPending
    /\ modelsLoaded = {}
    /\ path \in Paths
    /\ urlToken \in Tokens \cup {None}
    /\ storage \in Tokens \cup {None}
    /\ auth = [inst \in Instances |->
                  IF inst = "page" THEN AuthFresh ELSE AuthUnmounted]
    /\ verifyReqs = <<>>
    /\ logoutReqs = <<>>
    /\ nav = "loaded"
    /\ toast = None

AuthNext ==
    \/ \E inst \in Instances : AuthMountEffect(inst)
    \/ \E i \in 1..MaxInFlight, valid \in BOOLEAN, user \in Users :
           AuthVerifySuccess(i, [valid |-> valid, user |-> user])
    \/ \E i \in 1..MaxInFlight : AuthVerifyError(i)
    \/ \E inst \in Instances : AuthLogout(inst)
    \/ \E i \in 1..MaxInFlight : AuthLogoutResponse(i)
    \/ AuthRedirect
    \/ \E token \in Tokens : AuthGoogleLogin(token)
    \/ AuthUserReload

AuthSpec == AuthInit /\ [][AuthNext]_vars

----------------------------------------------------------------------------
(* The two flows on a signed-in page *)

FlowInit ==
    /\ tab = "convert"
    /\ rev \in {"state", "form"}
    /\ pvForm = pvFormDefaults
    /\ calEvents = <<>>
    /\ calEditing = <<>>
    /\ calTarget = "primary"
    /\ previewReqs = <<>>
    /\ commitReqs = <<>>
    /\ cache = [k \in QueryKeys |-> "fetching"]
    /\ tForm = tFormDefaults
    /\ parseReqs = <<>>
    /\ createReqs = <<>>
    /\ akForm = akFormDefaults
    /\ saveReqs = <<>>
    /\ removeReqs = <<>>
    /\ apiKeysQuery = ApiKeysPending
    /\ modelsLoaded = {}
    /\ path = "/"
    /\ urlToken = None
    /\ storage = "t1"
    /\ auth = [inst \in Instances |-> AuthUnmounted]
    /\ verifyReqs = <<>>
    /\ logoutReqs = <<>>
    /\ nav = "loaded"
    /\ toast = None

FlowNext ==
    \/ \E t \in Texts : CalSetTimelineText(t)
    \/ \E p \in Providers : CalSetProvider(p)
    \/ \E c \in {"primary"} \cup WritableCalendars : CalSetTargetCalendar(c)
    \/ CalPreviewSubmit
    \/ \E i \in 1..MaxInFlight, events \in ParsedEvents : CalPreviewSuccess(i, events)
    \/ \E i \in 1..MaxInFlight : CalPreviewError(i)
    \/ CalCommitSubmit
    \/ \E i \in 1..MaxInFlight : CalCommitSuccess(i)
    \/ \E i \in 1..MaxInFlight : CalCommitError(i)
    \/ CalCancel
    \/ \E idx \in 1..MaxItems : CalToggleEdit(idx)
    \/ \E idx \in 1..MaxItems, t \in Titles : CalEditTitle(idx, t)
    \/ \E k \in QueryKeys : QueryResolved(k)
    \/ \E t \in Texts : TaskSetTimeline(t)
    \/ TaskPreviewClick
    \/ \E i \in 1..MaxInFlight, tasks \in ParsedTasks : TaskParseSuccess(i, tasks)
    \/ \E i \in 1..MaxInFlight : TaskParseError(i)
    \/ TaskCreateClick
    \/ SwitchTab

FlowSpec == FlowInit /\ [][FlowNext]_vars

----------------------------------------------------------------------------
(* API keys: the form of ApiKeyManagementCard, the ["api-keys"] and          *)
(* ["models", provider] queries, and the model selects of the two flows      *)

\* lengths of the provider names and api keys the model enters
ProviderLens == {0, 1, 2, 100, 101}
ApiKeyLens == {0, 9, 10, 100, 101}

\* api_keys of a GetListApiKeysResponse: the entry of a provider is true,
\* false or absent
ApiKeysMaps == UNION {[S -> BOOLEAN] : S \in SUBSET Providers}

\* the models getModels(provider) answers with
ModelsOf(p) == IF p = "gemini" THEN {"gemini-2.5-flash"} ELSE {"gpt-4o"}

\* a schema that accepts every submission
SaveApiKeySchemaAcceptsAll(v) == TRUE

\* SaveApiKeySchema, on the lengths of the two strings
SaveApiKeySchemaOk(v) ==
    /\ v.provider >= 2
    /\ v.provider <= 100
    /\ v.api_key >= 10
    /\ v.api_key <= 100

\* hasApiKey: provider ? apiKeys?.api_keys[provider] : false, as a truth value
HasApiKey(provider) ==
    /\ provider # Undefined
    /\ provider # ""
    /\ apiKeysQuery.status # "fetching"
    /\ provider \in DOMAIN apiKeysQuery.data
    /\ apiKeysQuery.data[provider]

\* isLoading of useGetModelsQuery(provider, hasApiKey ?? false): the query
\* is enabled and holds no data yet
IsLoadingModels(provider) ==
    HasApiKey(provider) /\ provider \notin modelsLoaded

\* {llmProvider && ...} / {selectedProvider && ...} around the model field
ModelSelectRendered(provider) == provider # Undefined /\ provider # ""

\* a model select disabled only while its models load
ModelSelectDisabledWhileLoading(provider) == IsLoadingModels(provider)

\* disabled={!hasApiKey || isLoadingModels} of the model Select
ModelSelectDisabled(provider) ==
    ~HasApiKey(provider) \/ IsLoadingModels(provider)

\* the provider of the form that is mounted
MountedProvider ==
    IF tab = "convert" THEN pvForm.llm_provider
    ELSE IF tab = "tasks" THEN tForm.provider
    ELSE Undefined

\* an invalidation that marks nothing
InvalidateNothing(q) == q

\* qc.invalidateQueries({ queryKey: ["api-keys"] }): the entry is stale and
\* is fetched again
Invalidate(q) == [q EXCEPT !.status = "stale"]

\* the ["api-keys"] query gets an answer
ApiKeysFetched(map) ==
    /\ apiKeysQuery.status # "fresh"
    /\ apiKeysQuery' = [status |-> "fresh", data |-> map]
    /\ UNCHANGED <<tab, calVars, cache, taskVars, akForm, saveReqs, removeReqs,
                   modelsLoaded, authVars, toast>>

\* the ["models", provider] query of the mounted form gets an answer
ModelsFetched(p) ==
    /\ p = MountedProvider
    /\ IsLoadingModels(p)
    /\ modelsLoaded' = modelsLoaded \cup {p}
    /\ UNCHANGED <<tab, calVars, cache, taskVars, akForm, saveReqs, removeReqs,
                   apiKeysQuery, authVars, toast>>

\* the Select bound to llm_model of PreviewTimelineForm
CalSetModel(m) ==
    /\ tab = "convert"
    /\ ModelSelectRendered(pvForm.llm_provider)
    /\ ~ModelSelectDisabled(pvForm.llm_provider)
    /\ m \in ModelsOf(pvForm.llm_provider)
    /\ m # pvForm.llm_model
    /\ pvForm' = [pvForm EXCEPT !.llm_model = m]
    /\ UNCHANGED <<tab, keyVars, rev, calEvents, calEditing, calTarget,
                   previewReqs, commitReqs, cache, taskVars, authVars, toast>>

\* the Select bound to provider of PreviewTasksForm, its providers loaded
TaskSetProvider(p) ==
    /\ tab = "tasks"
    /\ p # tForm.provider
    /\ tForm' = [tForm EXCEPT !.provider = p]
    /\ UNCHANGED <<tab, keyVars, calVars, cache, parseReqs, createReqs,
                   authVars, toast>>

\* the Select bound to model of PreviewTasksForm
TaskSetModel(m) ==
    /\ tab = "tasks"
    /\ ModelSelectRendered(tForm.provider)
    /\ ~ModelSelectDisabled(tForm.provider)
    /\ m \in ModelsOf(tForm.provider)
    /\ m # tForm.model
    /\ tForm' = [tForm EXCEPT !.model = m]
    /\ UNCHANGED <<tab, keyVars, calVars, cache, parseReqs, createReqs,
                   authVars, toast>>

\* the Select bound to provider of the api-key form, its providers loaded
AkSetProvider(n) ==
    /\ tab = "apikeys"
    /\ n # 0
    /\ n # akForm.provider
    /\ akForm' = [akForm EXCEPT !.provider = n]
    /\ UNCHANGED <<tab, calVars, cache, taskVars, saveReqs, removeReqs,
                   apiKeysQuery, modelsLoaded, authVars, toast>>

\* the Input bound to api_key, rendered once a provider is chosen
AkSetApiKey(n) ==
    /\ tab = "apikeys"
    /\ akForm.provider # 0
    /\ n # akForm.api_key
    /\ akForm' = [akForm EXCEPT !.api_key = n]
    /\ UNCHANGED <<tab, calVars, cache, taskVars, saveReqs, removeReqs,
                   apiKeysQuery, modelsLoaded, authVars, toast>>

\* what saveApiKey(data, {...}) puts on the network
SaveIssue(reqs, data) ==
    Mutate(reqs, [data |-> data, bearer |-> ApiFetcherBearer(storage),
                  cb |-> TRUE, live |-> TRUE])

\* form.handleSubmit of the api-key form: the Save button, or Enter in the
\* api_key input
AkSubmit ==
    /\ tab = "apikeys"
    /\ akForm.provider # 0
    /\ ~IsPending(saveReqs)
    /\ Len(saveReqs) < MaxInFlight
    /\ IF SaveApiKeySchemaOk(akForm)
       THEN saveReqs' = SaveIssue(saveReqs, akForm)
       ELSE UNCHANGED saveReqs
    /\ UNCHANGED <<tab, calVars, cache, taskVars, akForm, removeReqs,
                   apiKeysQuery, modelsLoaded, authVars, toast>>

\* a save request succeeds: onSuccess of useSaveApiKeyMutation, then the
\* onSuccess given to saveApiKey(data, {...})
AkSaveSuccess(i) ==
    /\ i \in 1..Len(saveReqs)
    /\ saveReqs' = Settle(saveReqs, i)
    /\ apiKeysQuery' = Invalidate(apiKeysQuery)
    /\ IF saveReqs[i].cb
       THEN /\ toast' = "api-key-saved"
            /\ akForm' = akFormDefaults
       ELSE UNCHANGED <<toast, akForm>>
    /\ UNCHANGED <<tab, calVars, cache, taskVars, removeReqs, modelsLoaded,
                   authVars>>

\* a save request fails: the onError given to saveApiKey(data, {...})
AkSaveError(i) ==
    /\ i \in 1..Len(saveReqs)
    /\ saveReqs' = Settle(saveReqs, i)
    /\ toast' = IF saveReqs[i].cb THEN "save-api-key-failed" ELSE toast
    /\ UNCHANGED <<tab, calVars, cache, taskVars, akForm, removeReqs,
                   apiKeysQuery, modelsLoaded, authVars>>

\* mutate of useRemoveApiKeyMutation
AkRemove(p) ==
    /\ Len(removeReqs) < MaxRemoves
    /\ removeReqs' = Append(removeReqs,
           [provider |-> p, bearer |-> ApiFetcherBearer(storage)])
    /\ UNCHANGED <<tab, calVars, cache, taskVars, akForm, saveReqs,
                   apiKeysQuery, modelsLoaded, authVars, toast>>

\* a remove request succeeds: onSuccess of useRemoveApiKeyMutation
AkRemoveSuccess(i) ==
    /\ i \in 1..Len(removeReqs)
    /\ removeReqs' = Settle(removeReqs, i)
    /\ apiKeysQuery' = Invalidate(apiKeysQuery)
    /\ UNCHANGED <<tab, calVars, cache, taskVars, akForm, saveReqs,
                   modelsLoaded, authVars, toast>>

\* a remove request fails
AkRemoveError(i) ==
    /\ i \in 1..Len(removeReqs)
    /\ removeReqs' = Settle(removeReqs, i)
    /\ UNCHANGED <<tab, calVars, cache, taskVars, akForm, saveReqs,
                   apiKeysQuery, modelsLoaded, authVars, toast>>

\* the signed-in page with the convert tab open: the provider and calendar
\* lists are loaded, the ["api-keys"] query has no answer yet
KeyInit ==
    /\ tab = "convert"
    /\ rev = "form"
    /\ pvForm = pvFormDefaults
    /\ calEvents = <<>>
    /\ calEditing = <<>>
    /\ calTarget = "primary"
    /\ previewReqs = <<>>
    /\ commitReqs = <<>>
    /\ cache = [k \in QueryKeys |-> "fresh"]
    /\ tForm = tFormDefaults
    /\ parseReqs = <<>>
    /\ createReqs = <<>>
    /\ akForm = akFormDefaults
    /\ saveReqs = <<>>
    /\ removeReqs = <<>>
    /\ apiKeysQuery = ApiKeysPending
    /\ modelsLoaded = {}
    /\ path = "/"
    /\ urlToken = None
    /\ storage = "t1"
    /\ auth = [inst \in Instances |-> AuthUnmounted]
    /\ verifyReqs = <<>>
    /\ logoutReqs = <<>>
    /\ nav = "loaded"
    /\ toast = None

KeyNext ==
    \/ \E t \in Tabs : SwitchTabTo(t)
    \/ \E map \in ApiKeysMaps : ApiKeysFetched(map)
    \/ \E p \in Providers : ModelsFetched(p)
    \/ \E p \in Providers : CalSetProvider(p)
    \/ \E m \in ModelsOf("gemini") \cup ModelsOf("openai") : CalSetModel(m)
    \/ \E p \in Providers : TaskSetProvider(p)
    \/ \E m \in ModelsOf("gemini") \cup ModelsOf("openai") : TaskSetModel(m)
    \/ \E n \in ProviderLens : AkSetProvider(n)
    \/ \E n \in ApiKeyLens : AkSetApiKey(n)
    \/ AkSubmit
    \/ \E i \in 1..MaxInFlight : AkSaveSuccess(i)
    \/ \E i \in 1..MaxInFlight : AkSaveError(i)
    \/ \E p \in Providers : AkRemove(p)
    \/ \E i \in 1..MaxRemoves : AkRemoveSuccess(i)
    \/ \E i \in 1..MaxRemoves : AkRemoveError(i)

KeySpec == KeyInit /\ [][KeyNext]_vars

----------------------------------------------------------------------------
(* The preview card of the calendar flow: the dates of the events           *)

\* the events a backend answers with: any pair of days, also one that ends
\* before it starts
DatedEvents == {e \in Event : e.title = "a" /\ e.attendees = <<>>}

DatedParsedEvents == SeqsUpTo(DatedEvents, MaxItems)

\* the convert tab with the preview form filled in and its lists loaded
CardInit ==
    /\ tab = "convert"
    /\ rev \in {"state", "form"}
    /\ pvForm = [pvFormDefaults EXCEPT !.timeline_text = "x",
                                       !.llm_provider = "gemini"]
    /\ calEvents = <<>>
    /\ calEditing = <<>>
    /\ calTarget = "primary"
    /\ previewReqs = <<>>
    /\ commitReqs = <<>>
    /\ cache = [k \in QueryKeys |-> "fresh"]
    /\ tForm = tFormDefaults
    /\ parseReqs = <<>>
    /\ createReqs = <<>>
    /\ akForm = akFormDefaults
    /\ saveReqs = <<>>
    /\ removeReqs = <<>>
    /\ apiKeysQuery = ApiKeysPending
    /\ modelsLoaded = {}
    /\ path = "/"
    /\ urlToken = None
    /\ storage = "t1"
    /\ auth = [inst \in Instances |-> AuthUnmounted]
    /\ verifyReqs = <<>>
    /\ logoutReqs = <<>>
    /\ nav = "loaded"
    /\ toast = None

CardNext ==
    \/ CalPreviewSubmit
    \/ \E i \in 1..MaxInFlight, events \in DatedParsedEvents :
           CalPreviewSuccess(i, events)
    \/ \E idx \in 1..MaxItems : CalToggleEdit(idx)
    \/ \E idx \in 1..MaxItems, from \in Dates, to \in Dates :
           CalEditDateRange(idx, from, to)
    \/ CalCommitSubmit
    \/ \E i \in 1..MaxInFlight : CalCommitSuccess(i)
    \/ \E i \in 1..MaxInFlight : CalCommitError(i)

CardSpec == CardInit /\ [][CardNext]_vars

----------------------------------------------------------------------------
(* The preview card of the calendar flow: editing the previewed events      *)

\* the event a backend answers with: titled, one day, nobody invited
PlainEvent == [title |-> "a", start_date |-> 1, end_date |-> 1, attendees |-> <<>>]

\* the form revision of the card after a preview succeeded and the pencil of
\* every card was pressed: between one and MaxItems events are listed, each
\* is being edited, and the target calendar is what the preview handler
\* handed over
EditInit ==
    /\ tab = "convert"
    /\ rev = "form"
    /\ pvForm = [pvFormDefaults EXCEPT !.timeline_text = "x",
                                       !.llm_provider = "gemini"]
    /\ calEvents \in SeqsUpTo({PlainEvent}, MaxItems) \ {<<>>}
    /\ calEditing = [i \in 1..Len(calEvents) |-> TRUE]
    /\ calTarget = Field(PreviewTimelineSchemaParse(pvForm), "target_calendar_id")
    /\ previewReqs = <<>>
    /\ commitReqs = <<>>
    /\ cache = [k \in QueryKeys |-> "fresh"]
    /\ tForm = tFormDefaults
    /\ parseReqs = <<>>
    /\ createReqs = <<>>
    /\ akForm = akFormDefaults
    /\ saveReqs = <<>>
    /\ removeReqs = <<>>
    /\ apiKeysQuery = ApiKeysPending
    /\ modelsLoaded = {}
    /\ path = "/"
    /\ urlToken = None
    /\ storage = "t1"
    /\ auth = [inst \in Instances |-> AuthUnmounted]
    /\ verifyReqs = <<>>
    /\ logoutReqs = <<>>
    /\ nav = "loaded"
    /\ toast = "parsed-events"

EditNext ==
    \/ \E idx \in 1..MaxItems, t \in Titles : CalEditTitle(idx, t)
    \/ \E idx \in 1..MaxItems, from \in Dates, to \in Dates :
           CalEditDateRange(idx, from, to)
    \/ \E idx \in 1..MaxItems : CalAddAttendee(idx)
    \/ \E idx \in 1..MaxItems, k \in 1..MaxAttendees : CalRemoveAttendee(idx, k)
    \/ CalCommitSubmit
    \/ \E i \in 1..MaxInFlight : CalCommitSuccess(i)
    \/ \E i \in 1..MaxInFlight : CalCommitError(i)

EditSpec == EditInit /\ [][EditNext]_vars

----------------------------------------------------------------------------
(* Properties of the session controller, checked under AuthSpec *)

\* C1: after a page load the session controller leaves the loading state once
\* every verify request of the page has been answered: when the mount effect
\* of the page's useAuth has run and no verify request of it is outstanding,
\* isLoading is false (so the landing page or the application is rendered).
C1_SettlesAfterPageLoad ==
    (auth["page"].effectRan /\ ~IsLoadingVerifyToken(verifyReqs, "page"))
        => ~AuthIsLoading(auth, verifyReqs, "page")

----------------------------------------------------------------------------
(* Properties of the preview/commit flows, checked under FlowSpec *)

\* C2: in the calendar flow a failed preview request leaves the preview event
\* list empty, also when an earlier preview had populated it.
C2_PreviewFailureClearsList ==
    [][\A i \in 1..MaxInFlight : CalPreviewError(i) => calEvents' = <<>>]_vars

\* C3: in both flows a successful preview makes the preview list exactly the
\* sequence of the response, whatever the list held before (an earlier
\* preview, edits), and every accepted preview trigger puts one more request
\* on the network, carrying the values of the form as they are.
C3_PreviewSuccessReplaces ==
    [][/\ \A i \in 1..MaxInFlight, events \in ParsedEvents :
              CalPreviewSuccess(i, events) => calEvents' = events
       /\ \A i \in 1..MaxInFlight, tasks \in ParsedTasks :
              TaskParseSuccess(i, tasks) => tForm'.tasks = tasks
       /\ (CalPreviewSubmit /\ PreviewTimelineSchemaOk(pvForm)) =>
              /\ Len(previewReqs') = Len(previewReqs) + 1
              /\ previewReqs'[Len(previewReqs')].data = PreviewTimelineSchemaParse(pvForm)
       /\ (TaskPreviewClick /\ Trim(tForm.timeline) # "") =>
              /\ Len(parseReqs') = Len(parseReqs) + 1
              /\ parseReqs'[Len(parseReqs')].timeline_text = tForm.timeline
      ]_vars

\* a preview response has replaced the list while no request is left in flight
C3_Witness ==
    /\ tab = "convert"
    /\ toast = "parsed-events"
    /\ Len(calEvents) = 2
    /\ calEvents[1].title = "a"
    /\ calEvents[2].title = ""
    /\ previewReqs = <<>>

C6_NoCommitOnEmptyList ==
    [][/\ Len(commitReqs') > Len(commitReqs) =>
              /\ Len(calEvents) > 0
              /\ Len(commitReqs'[Len(commitReqs')].data.events) > 0
       /\ TaskCreateClick => Len(tForm.tasks) > 0
       /\ Len(createReqs') > Len(createReqs) => Len(tForm.tasks) > 0
      ]_vars

\* a preview came back without events: the list is empty, no card is shown
\* and nothing has been committed
C6_Witness ==
    /\ tab = "convert"
    /\ toast = "parsed-events"
    /\ calEvents = <<>>
    /\ ~PreviewCardRendered
    /\ commitReqs = <<>>

C8_PreviewCommitSequential ==
    ~(/\ \E i \in DOMAIN previewReqs : previewReqs[i].live
      /\ \E j \in DOMAIN commitReqs : commitReqs[j].live)

\* C9: when a commit request succeeds, the cached list of the target
\* resource (the calendars) is invalidated: it is no longer fresh.
C9_CommitSuccessInvalidates ==
    [][\A i \in 1..MaxInFlight :
          (CalCommitSuccess(i) /\ commitReqs[i].cb) =>
              cache'["writable-calendars"] # "fresh"]_vars

\* C10: in the task flow commit submits the previewed tasks to the backend,
\* and the success notification and the clearing of the preview wait for the
\* response: the click puts a request on the network, and neither notifies
\* nor clears.
C10_TaskCommitSubmits ==
    [][TaskCreateClick =>
          /\ Len(createReqs') = Len(createReqs) + 1
          /\ toast' = toast
          /\ tForm'.tasks = tForm.tasks]_vars

----------------------------------------------------------------------------
(* Properties of the API keys and the model selects                         *)

\* the ["api-keys"] map holds no true entry for provider p: not loaded yet,
\* entry missing, or entry false
NoStoredKey(p) ==
    \/ apiKeysQuery.status = "fetching"
    \/ p \notin DOMAIN apiKeysQuery.data
    \/ ~apiKeysQuery.data[p]

\* C11: in both flows the model select of the mounted form is disabled
\* whenever the selected provider has no stored API key (entry false or
\* missing, or the key map not loaded), whether or not the models of the
\* provider are known; and the model field changes under an unchanged
\* provider only when that provider has a stored key.
C11_NoKeyDisablesModelSelect ==
    /\ [](\A p \in Providers :
            (p = MountedProvider /\ NoStoredKey(p)) => ModelSelectDisabled(p))
    /\ [][((tab = "convert" /\ tab' = tab
             /\ pvForm'.llm_provider = pvForm.llm_provider
             /\ pvForm'.llm_model # pvForm.llm_model)
            => (pvForm.llm_provider \in Providers
                /\ ~NoStoredKey(pvForm.llm_provider)))
           /\
           ((tab = "tasks" /\ tab' = tab
             /\ tForm'.provider = tForm.provider
             /\ tForm'.model # tForm.model)
            => (tForm.provider \in Providers
                /\ ~NoStoredKey(tForm.provider)))]_vars

\* a provider is selected in the task form, the key map is loaded and its
\* entry for the provider is false, while the models of the provider are known
C11_Witness ==
    /\ tab = "tasks"
    /\ tForm.provider = "openai"
    /\ apiKeysQuery.status = "fresh"
    /\ "openai" \in DOMAIN apiKeysQuery.data
    /\ ~apiKeysQuery.data["openai"]
    /\ "openai" \in modelsLoaded
    /\ ModelSelectDisabled("openai")

\* C12: in either flow, a step that changes the selected provider from one
\* provider to a different one leaves the model field of the form empty.
C12_ProviderChangeEmptiesModel ==
    [][((tab = "convert" /\ tab' = tab
         /\ pvForm.llm_provider \in Providers
         /\ pvForm'.llm_provider \in Providers
         /\ pvForm'.llm_provider # pvForm.llm_provider)
        => pvForm'.llm_model \in {Undefined, ""})
       /\
       ((tab = "tasks" /\ tab' = tab
         /\ tForm.provider \in Providers
         /\ tForm'.provider \in Providers
         /\ tForm'.provider # tForm.provider)
        => tForm'.model \in {Undefined, ""})]_vars

\* C13: a save-API-key request is put on the network only by a submission
\* whose api_key is 10 to 100 characters long and whose provider is 2 to 100
\* characters long, and it carries those values; a step taken while the form
\* holds values outside these limits sends nothing, leaves the cached
\* api-keys list alone unless an earlier request settles, and a step that
\* sends nothing and settles nothing does not reset the form.
C13_SaveOnlyWhenValid ==
    [][/\ (Len(saveReqs') > Len(saveReqs))
          => (/\ akForm.api_key >= 10 /\ akForm.api_key <= 100
              /\ akForm.provider >= 2 /\ akForm.provider <= 100
              /\ saveReqs'[Len(saveReqs')].data = akForm
              /\ akForm' = akForm
              /\ apiKeysQuery' = apiKeysQuery)
       /\ (/\ tab = "apikeys" /\ tab' = tab
           /\ (akForm.api_key < 10 \/ akForm.api_key > 100
               \/ akForm.provider < 2 \/ akForm.provider > 100)
           /\ Len(saveReqs') >= Len(saveReqs)
           /\ Len(removeReqs') >= Len(removeReqs))
          => (/\ saveReqs' = saveReqs
              /\ apiKeysQuery'.status # "stale" \/ apiKeysQuery.status = "stale"
              /\ akForm' # akFormDefaults \/ akForm = akFormDefaults)]_vars

\* a save request is in flight whose api_key and provider are at the limits
\* of the schema
C13_Witness ==
    /\ tab = "apikeys"
    /\ Len(saveReqs) > 0
    /\ saveReqs[Len(saveReqs)].live
    /\ saveReqs[Len(saveReqs)].data.api_key = 10
    /\ saveReqs[Len(saveReqs)].data.provider = 100

\* C14: a save or remove request that succeeds leaves the cached api-keys
\* list invalidated (stale, to be fetched again), also when the form that
\* sent it is gone; a save or remove request that fails leaves the cached
\* list exactly as it was.
C14_KeyMutationsInvalidate ==
    [][/\ \A i \in 1..MaxInFlight :
            /\ AkSaveSuccess(i) => apiKeysQuery'.status = "stale"
            /\ AkSaveError(i) => apiKeysQuery' = apiKeysQuery
       /\ \A i \in 1..MaxRemoves :
            /\ AkRemoveSuccess(i) => apiKeysQuery'.status = "stale"
            /\ AkRemoveError(i) => apiKeysQuery' = apiKeysQuery]_vars

\* a save has succeeded after the list had been loaded: the toast of the
\* form is shown, the form is reset and the loaded list is stale
C14_Witness ==
    /\ toast = "api-key-saved"
    /\ akForm = akFormDefaults
    /\ apiKeysQuery.status = "stale"
    /\ apiKeysQuery.data # <<>>

----------------------------------------------------------------------------
(* Properties of sign-out and of the requests' credentials                  *)

\* C15: when a token verification fails, whether the token came with the URL
\* or from local storage, the step of the failure handler leaves local
\* storage without a token and the useAuth instance that asked for the
\* verification unauthenticated, with user and token null and isLoading false.
C15_VerifyFailureSignsOut ==
    [][\A i \in 1..MaxInFlight :
          (AuthVerifyError(i) /\ verifyReqs[i].cb)
          => /\ storage' = None
             /\ ~auth'[verifyReqs[i].inst].isAuthenticated
             /\ auth'[verifyReqs[i].inst].user = None
             /\ auth'[verifyReqs[i].inst].token = None
             /\ ~auth'[verifyReqs[i].inst].isLoading]_vars

\* the verification of a stored token has failed on the page: the notice is
\* up, local storage is empty and the page's session is signed out
C15_Witness ==
    /\ toast = "session-expired"
    /\ nav = "loaded"
    /\ storage = None
    /\ auth["page"].mounted
    /\ auth["page"].effectRan
    /\ ~auth["page"].isAuthenticated
    /\ ~auth["page"].isLoading
    /\ auth["page"].user = None
    /\ auth["page"].token = None

\* C16: a failed verification of a token that came with the URL shows no
\* "session expired" notice; the notice appears only when the verification
\* of a stored token fails.
C16_NoticeOnlyForStoredToken ==
    [][\A i \in 1..MaxInFlight :
          (AuthVerifyError(i) /\ verifyReqs[i].cb /\ verifyReqs[i].viaUrl)
          => toast' # "session-expired"]_vars

\* C17: the step of logout() leaves local storage without a token, the
\* useAuth instance that logged out unauthenticated with user and token null,
\* one more logout request on the network, the browser redirecting to the
\* root path and no verification under way; the answer of the backend to the
\* logout request changes none of this; the redirect loads the root path
\* without a URL token and with every instance unauthenticated; and from the
\* logout on, as long as no page load brings a URL token, local storage
\* stays empty, no verification starts and no instance becomes Authenticated.
C17_LogoutSignsOut ==
    /\ [][\A inst \in Instances :
             AuthLogout(inst)
             => /\ storage' = None
                /\ ~auth'[inst].isAuthenticated
                /\ auth'[inst].user = None
                /\ auth'[inst].token = None
                /\ Len(logoutReqs') = Len(logoutReqs) + 1
                /\ nav' = "redirecting"
                /\ verifyReqs' = <<>>
                /\ \A other \in Instances :
                      auth'[other].mounted => auth'[other].effectRan]_vars
    /\ [][\A i \in 1..MaxInFlight :
             AuthLogoutResponse(i)
             => (storage' = storage /\ auth' = auth /\ nav' = nav)]_vars
    /\ [][(nav = "redirecting" /\ nav' = "loaded")
          => (/\ urlToken' = None
              /\ path' = "/"
              /\ storage' = storage
              /\ verifyReqs' = <<>>
              /\ \A inst \in Instances : ~auth'[inst].isAuthenticated)]_vars
    /\ [][(/\ storage = None
           /\ verifyReqs = <<>>
           /\ \A inst \in Instances :
                 (auth[inst].mounted /\ ~auth[inst].effectRan) => urlToken = None
           /\ ~(urlToken' # None /\ ~auth'["page"].effectRan))
          => (/\ storage' = None
              /\ verifyReqs' = <<>>
              /\ \A inst \in Instances :
                    auth'[inst].isAuthenticated => auth[inst].isAuthenticated
              /\ \A inst \in Instances :
                    (auth'[inst].mounted /\ ~auth'[inst].effectRan)
                    => urlToken' = None)]_vars

\* the page load that followed a logout: the logout request is still
\* unanswered, the page was loaded without a URL token, its mount effect has
\* run, local storage is empty and the page is not authenticated
C17_Witness ==
    /\ Len(logoutReqs) > 0
    /\ nav = "loaded"
    /\ urlToken = None
    /\ storage = None
    /\ auth["page"].effectRan
    /\ ~auth["page"].isAuthenticated
    /\ verifyReqs = <<>>

\* C18: while local storage holds a token, every request in flight that a
\* mounted component issued carries the header Authorization: Bearer <token>:
\* the preview and commit requests of the calendar flow and the parse
\* requests of the task flow alike.
C18_RequestsCarryBearer ==
    storage # None
    => /\ \A i \in 1..Len(previewReqs) :
            previewReqs[i].live => previewReqs[i].bearer = storage
       /\ \A i \in 1..Len(commitReqs) :
            commitReqs[i].live => commitReqs[i].bearer = storage
       /\ \A i \in 1..Len(parseReqs) : parseReqs[i].bearer = storage

----------------------------------------------------------------------------
(* Properties of the inputs of the two flows                                *)

\* C19: while the timeline text of the mounted flow is empty, its
\* generate/parse trigger is disabled: the submit button of the preview form
\* in the calendar flow, the parse button in the task flow.
C19_EmptyTextDisablesTrigger ==
    /\ (tab = "convert" /\ pvForm.timeline_text = "") => PreviewButtonDisabled
    /\ (tab = "tasks" /\ tForm.timeline = "") => ParseButtonDisabled

\* C20: a commit request of the calendar flow that goes out while the
\* writable calendars have never been loaded, so that the user cannot have
\* selected any calendar but the preset one, carries
\* target_calendar_id = "primary".
C20_CommitDefaultsToPrimary ==
    [][(/\ Len(commitReqs') > Len(commitReqs)
        /\ cache["writable-calendars"] = "fetching")
       => Field(commitReqs'[Len(commitReqs')].data, "target_calendar_id")
          = "primary"]_vars

----------------------------------------------------------------------------
(* Properties of the previewed events                                       *)

\* C21: no commit request in flight that a mounted card issued contains an
\* event whose end_date is earlier than its start_date, whether the event is
\* as the backend previewed it or was edited in place; equal dates pass.
C21_CommitDatesOrdered ==
    \A i \in 1..Len(commitReqs) :
        commitReqs[i].live
        => \A k \in 1..Len(commitReqs[i].data.events) :
              commitReqs[i].data.events[k].end_date
                  >= commitReqs[i].data.events[k].start_date

\* C22: in the calendar flow, with a non-empty timeline text and no provider
\* chosen, and the submit button enabled, triggering the preview puts a
\* preview request on the network.
C22_PreviewWithoutProvider ==
    (/\ tab = "convert"
     /\ pvForm.timeline_text # ""
     /\ pvForm.llm_provider = Undefined
     /\ ~PreviewButtonDisabled
     /\ Len(previewReqs) < MaxInFlight)
    => ENABLED (CalPreviewSubmit /\ Len(previewReqs') = Len(previewReqs) + 1)

\* C23: an edit of the previewed event at index idx (its title, its date
\* range, an attendee row added or removed) changes that event and nothing
\* else: the list keeps its length and order, every other event is as it
\* was, the target calendar is unchanged, and no request is issued or
\* settled by the edit.
C23_EditTouchesOneEvent ==
    [][\A idx \in 1..MaxItems :
          (\/ \E t \in Titles : CalEditTitle(idx, t)
           \/ \E from \in Dates, to \in Dates : CalEditDateRange(idx, from, to)
           \/ CalAddAttendee(idx)
           \/ \E k \in 1..MaxAttendees : CalRemoveAttendee(idx, k))
          => /\ Len(calEvents') = Len(calEvents)
             /\ calEvents'[idx] # calEvents[idx]
             /\ \A j \in 1..Len(calEvents) :
                   j # idx => calEvents'[j] = calEvents[j]
             /\ calTarget' = calTarget
             /\ previewReqs' = previewReqs
             /\ commitReqs' = commitReqs
             /\ parseReqs' = parseReqs
             /\ createReqs' = createReqs]_vars

\* two events are listed and a commit of them is in flight; since then the
\* first was given a later end date and a blank attendee row, the second is
\* as it was committed
C23_Witness ==
    /\ Len(calEvents) = 2
    /\ calEvents[1].end_date = 2
    /\ calEvents[1].attendees = <<"">>
    /\ calEvents[2] = PlainEvent
    /\ Len(commitReqs) = 1
    /\ commitReqs[1].live
    /\ commitReqs[1].data.events = <<PlainEvent, PlainEvent>>

----------------------------------------------------------------------------
(* Properties of the pending flags                                          *)

\* C24: when the response (success or error) to the preview or commit
\* request a form follows is handled, the pending flag of that mutation is
\* false and its button is enabled again; when the response to a parse
\* request is handled, isLoading of the task form is false, and the parse
\* button is enabled again unless the text was blanked meanwhile; and the
\* task form shows isLoading only while a parse request is in flight and
\* never rests in isCreating.
C24_ResponseEndsPending ==
    /\ [](tab = "tasks"
          => /\ tForm.isLoading => Len(parseReqs) > 0
             /\ ~tForm.isCreating)
    /\ [][\A i \in 1..MaxInFlight :
            /\ ((CalPreviewError(i) \/ \E events \in ParsedEvents :
                                          CalPreviewSuccess(i, events))
                /\ previewReqs[i].cb)
               => (~IsPending(previewReqs') /\ ~PreviewButtonDisabled')
            /\ ((CalCommitSuccess(i) \/ CalCommitError(i)) /\ commitReqs[i].cb)
               => (~IsPending(commitReqs') /\ ~CommitButtonDisabled')
            /\ (TaskParseError(i) \/ \E tasks \in ParsedTasks :
                                        TaskParseSuccess(i, tasks))
               => /\ ~tForm'.isLoading
                  /\ Trim(tForm'.timeline) # "" => ~ParseButtonDisabled']_vars

\* a commit has failed: its notice is up, the events are still listed and
\* the "Add to Calendar" button is enabled again
C24_Witness ==
    /\ toast = "create-events-failed"
    /\ Len(calEvents) > 0
    /\ commitReqs = <<>>
    /\ ~CommitButtonDisabled

----------------------------------------------------------------------------
(* Properties of the verified session                                       *)

\* C25: a verify response that reports valid = false neither makes the
\* instance that asked Authenticated nor writes a token to local storage.
C25_InvalidTokenNotAuthenticated ==
    [][\A i \in 1..MaxInFlight, user \in Users :
          (/\ AuthVerifySuccess(i, [valid |-> FALSE, user |-> user])
           /\ verifyReqs[i].cb)
          => /\ ~auth'[verifyReqs[i].inst].isAuthenticated
             /\ storage' = storage]_vars

\* C26: the logout request that logout() sends carries the bearer token of
\* the session being ended, the token local storage held when logout() was
\* called.
C26_LogoutCarriesBearer ==
    [][\A inst \in Instances :
          AuthLogout(inst)
          => /\ storage # None
             /\ logoutReqs'[Len(logoutReqs')].bearer = storage]_vars

----------------------------------------------------------------------------
(* Properties of a commit that overlaps a preview or an edit *)

\* C27: when a commit whose callbacks are still attached succeeds, the list
\* the success handler empties is the batch that request carried: a list put
\* there by a later preview, or edited while the commit was in flight, is
\* not emptied (a list already emptied by Cancel loses nothing)
C27_CommitRemovesCommittedBatch ==
    [][\A i \in 1..MaxInFlight :
          (/\ CalCommitSuccess(i)
           /\ commitReqs[i].cb
           /\ calEvents # <<>>)
          => calEvents = commitReqs[i].data.events]_vars

\* C28: the target calendar stored with the events when a preview succeeds
\* is a calendar the preview form's selector offers (the one chosen for that
\* preview), a later change of the selector leaves the stored target alone,
\* and a commit request carries the stored target
C28_CommitTargetsPreviewedCalendar ==
    [][/\ \A i \in 1..MaxInFlight, events \in ParsedEvents :
             (/\ CalPreviewSuccess(i, events)
              /\ previewReqs[i].cb)
             => calTarget' \in {"primary"} \cup WritableCalendars
       /\ \A c \in {"primary"} \cup WritableCalendars :
             CalSetTargetCalendar(c) => calTarget' = calTarget
       /\ (Len(commitReqs') > Len(commitReqs))
          => /\ Field(commitReqs'[Len(commitReqs')].data, "target_calendar_id")
                = calTarget
             /\ calTarget \in {"primary"} \cup WritableCalendars]_vars

----------------------------------------------------------------------------
(* Properties of the parsed tasks                                            *)

\* C29: in the task flow, while a parse request is in flight the list of
\* previewed tasks is empty, its card is not rendered and createTasks cannot
\* be triggered; issuing a parse request empties the list; a parse that
\* fails or returns no task leaves the list empty; and a parse that returns
\* at least one task puts exactly those tasks on the list.
C29_TasksEmptyWhileParsing ==
    /\ []((tab = "tasks" /\ Len(parseReqs) > 0)
          => /\ tForm.tasks = <<>>
             /\ ~PreviewTasksCardRendered
             /\ CreateButtonDisabled
             /\ ~ENABLED TaskCreateClick)
    /\ [][/\ (Len(parseReqs') > Len(parseReqs)) => tForm'.tasks = <<>>
          /\ \A i \in 1..MaxInFlight :
                /\ (TaskParseError(i) \/ TaskParseSuccess(i, <<>>))
                   => tForm'.tasks = <<>>
                /\ \A tasks \in ParsedTasks \ {<<>>} :
                      TaskParseSuccess(i, tasks) => tForm'.tasks = tasks]_vars

\* a parse returned tasks, and a second parse, issued from the form that
\* showed them, is in flight over an emptied list
C29_Witness ==
    /\ tab = "tasks"
    /\ Len(parseReqs) > 0
    /\ toast = "parsed-tasks"
    /\ tForm.isLoading
    /\ tForm.tasks = <<>>

----------------------------------------------------------------------------
(* Properties of the useAuth instances taken together                        *)

\* C30: whenever a mounted useAuth instance is Authenticated, local storage
\* holds a token and it is the token of that instance, whatever the order in
\* which the verify responses of the instances and a logout were handled.
C30_AuthenticatedMatchesStorage ==
    \A inst \in Instances :
        (auth[inst].mounted /\ auth[inst].isAuthenticated)
        => /\ storage # None
           /\ storage = auth[inst].token

====
